---- MODULE Spec2Model ----
(***************************************************************************)
(* The scrolling-reel TaskSelector component                               *)
(* (src/src/components/TaskSelector.tsx, lines 784-1258) as a state        *)
(* machine: the React state and refs of one component instance, the        *)
(* timers its spin schedules, and one action per event handler or timer    *)
(* callback.                                                               *)
(*                                                                         *)
(* A string is a sequence of one-character strings, so that trim() is      *)
(* computed and not assumed.  A timer is a record holding its id, its      *)
(* delay and the values its callback closes over.                          *)
(***************************************************************************)
EXTENDS Integers, Sequences, FiniteSets, TLC

VARIABLES
  tasks,               \* useState<string[]>(loadTasksFromStorage)
  newTask,             \* useState("")                 the text input
  isSpinning,          \* useState(false)
  reelOffset,          \* useState(0)
  transitionDuration,  \* useState(60)
  winner,              \* useState<string | null>(null)
  error,               \* useState("")
  spinIntervalRef,     \* useRef(null): id of the last tick timer scheduled
  speedRef,            \* useRef(60)
  elapsedRef,          \* useRef(0)
  reelOffsetRef,       \* useRef(0)
  timers,              \* the pending setTimeout callbacks
  mounted,             \* the component instance is mounted
  stored,              \* localStorage value under STORAGE_KEY
  loadedFrom,          \* the value getItem(STORAGE_KEY) gave the first render
  setItemThrows,       \* localStorage.setItem throws (storage full or denied)
  crashed,             \* an effect threw: React removed the component tree
  droppedUpdates,      \* a callback called a state setter after unmount
  spinTasks,           \* history: the task list closed over by the last spin()
  reveals,             \* history: reveal callbacks applied since the last spin()
  cleared,             \* history: Clear All was pressed since the last spin() with its timers pending
  spinFrom,            \* history: the slot the reel's run to its present slot began at
  TaskList,            \* session: the candidate tasks
  CompletedHistory,    \* session: the completed tasks, most recent first
  CreditBalance,       \* session: the skip credits
  Streak,              \* session: completions since the last skip
  phase,               \* session: SpinState.phase
  chosenIndex,         \* session: SpinState.chosenIndex
  spinCostsCredit,     \* session: the cost policy in force
  sessionMessage,      \* session: the message of the last rejected request
  awardCall,           \* ledger: a call of awardForCompletion, its arguments and result
  emitter              \* tick emitter: position observed, last slot cued, cues fired

vars == <<tasks, newTask, isSpinning, reelOffset, transitionDuration, winner,
          error, spinIntervalRef, speedRef, elapsedRef, reelOffsetRef, timers,
          mounted, stored, loadedFrom, setItemThrows, crashed, droppedUpdates,
          spinTasks, reveals, cleared, spinFrom, TaskList, CompletedHistory,
          CreditBalance, Streak, phase, chosenIndex, spinCostsCredit,
          sessionMessage, awardCall, emitter>>

(***************************************************************************)
(* Bounds of the model.                                                    *)
(***************************************************************************)
\* spin() is taken only while the reel has scrolled at most this many slots
MaxSpinStart == 36

\* the number of tasks of the long stored list
LongLen == 37

\* complete() is taken only while the completed history is shorter
MaxCompleted == 4

\* the tick emitter observes at most this many positions of one spin
MaxObservations == 5

\* the largest completed count and streak awardForCompletion is called with
MaxTotal == 12
MaxStreak == 12

(***************************************************************************)
(* Values.                                                                 *)
(***************************************************************************)
\* null: a one-element tuple whose element is no character, so it differs
\* from every string
Null == <<"null">>

\* undefined, the value of an array read past its end
Undefined == <<"undefined">>

\* the texts the user types into the input
Inputs == { <<>>, <<" ">>, <<" ", "a">>, <<"A">> }

\* a task list left in storage by an earlier session
StoredList == << <<"a">>, <<"A">>, <<"b">>, <<"c">> >>

Letters == <<"a", "b", "c", "d", "e", "f", "g">>

\* a long task list left in storage: the names aa, ab, ..., ag, ba, ...
LongList ==
  [i \in 1..LongLen |->
    <<Letters[((i - 1) \div 7) + 1], Letters[((i - 1) % 7) + 1]>>]

Whitespace == {" "}

\* texts an earlier session stored: arrays of plain names, of the empty
\* name, of names holding the characters JSON quotes with or separates
\* elements with, and an array written by hand with white space
SavedTexts ==
  { <<"[", "]">>,
    <<"[", "\"", "a", "\"", "]">>,
    <<"[", "\"", "a", "\"", ",", "\"", "A", "\"", "]">>,
    <<"[", "\"", "\\", "\"", "\"", "]">>,
    <<"[", "\"", "\\", "\\", "\"", "]">>,
    <<"[", "\"", "a", ",", "A", "\"", ",", "\"", "[", "]", "\"", "]">>,
    <<"[", "\"", "\"", ",", "\"", "a", "\"", "]">>,
    <<"[", "\"", "a", "\"", ",", "\"", "a", "\"", "]">>,
    <<"[", "\"", "\\", "\"", "\"", ",", "\"", "a", ",", "A", "\"", "]">>,
    <<"[", " ", "\"", "a", "\"", " ", ",", "\"", "A", "\"", "]", " ">> }

\* stored texts that JSON.parse rejects
NotJSON ==
  { <<"{">>,
    <<"a">>,
    <<"[", "\"", "a", "\"">>,
    <<"[", "\"", "a", "\"", "]", "]">>,
    <<"[", "\"", "a", "\"", ",", "]">> }

\* stored texts that are JSON values other than arrays
NotArray ==
  { <<"{", "}">>,
    <<"1">>,
    <<"n", "u", "l", "l">>,
    <<"t", "r", "u", "e">>,
    <<"\"", "a", "\"">>,
    <<"{", "\"", "a", "\"", ":", "[", "\"", "a", "\"", "]", "}">> }

ErrNone == ""
ErrEmpty == "Please enter a task name."
ErrExists == "That task already exists."
ErrTooFew == "Add at least 2 tasks to spin!"

\* setTimeout ids are positive, null is falsy
NoTimer == 0

Range(s) == { s[i] : i \in 1..Len(s) }

Min(a, b) == IF a < b THEN a ELSE b

(***************************************************************************)
(* String.prototype.trim                                                   *)
(***************************************************************************)
RECURSIVE TrimStart(_)
TrimStart(s) ==
  IF s # <<>> /\ Head(s) \in Whitespace THEN TrimStart(Tail(s)) ELSE s

RECURSIVE TrimEnd(_)
TrimEnd(s) ==
  IF s # <<>> /\ s[Len(s)] \in Whitespace
  THEN TrimEnd(SubSeq(s, 1, Len(s) - 1))
  ELSE s

Trim(s) == TrimEnd(TrimStart(s))

\* includes that looks at the first entry only
IncludesFirstOnly(list, x) == list # <<>> /\ list[1] = x

\* Array.prototype.includes on an array of strings
Includes(list, x) == \E i \in 1..Len(list) : list[i] = x

\* prev.filter((_, i) => i !== index), index counted from 0
SpliceOut(list, index) ==
  LET at   == IF index < 0 THEN Len(list) + index ELSE index
      keep == { i \in 1..Len(list) : i - 1 # at }
      F[k \in 0..Len(list)] ==
        IF k = 0 THEN <<>>
        ELSE IF k \in keep THEN Append(F[k - 1], list[k]) ELSE F[k - 1]
  IN F[Len(list)]

FilterOut(list, index) ==
  LET keep == { i \in 1..Len(list) : i - 1 # index }
      F[k \in 0..Len(list)] ==
        IF k = 0 THEN <<>>
        ELSE IF k \in keep THEN Append(F[k - 1], list[k]) ELSE F[k - 1]
  IN F[Len(list)]

(***************************************************************************)
(* Persistence: localStorage, JSON.stringify and JSON.parse.  A stored     *)
(* value is the text itself, so that writing a list and reading it back    *)
(* goes through the quoting and the parser.                                *)
(***************************************************************************)
\* getItem found no value under the key: null
Absent == [kind |-> "absent", text |-> <<>>]

\* getItem threw
Throws == [kind |-> "throws", text |-> <<>>]

\* getItem returned the string text
Text(text) == [kind |-> "text", text |-> text]

\* JSON.stringify of one character of a string
Escape(c) ==
  IF c = "\"" THEN <<"\\", "\"">>
  ELSE IF c = "\\" THEN <<"\\", "\\">>
  ELSE <<c>>

RECURSIVE EscapeAll(_)
EscapeAll(s) ==
  IF s = <<>> THEN <<>> ELSE Escape(Head(s)) \o EscapeAll(Tail(s))

\* a string written between quotes without escaping its characters
QuotedRaw(s) == <<"\"">> \o s \o <<"\"">>

\* JSON.stringify of a string
Quoted(s) == <<"\"">> \o EscapeAll(s) \o <<"\"">>

RECURSIVE Joined(_)
Joined(list) ==
  IF list = <<>> THEN <<>>
  ELSE IF Len(list) = 1 THEN Quoted(list[1])
  ELSE Quoted(Head(list)) \o <<",">> \o Joined(Tail(list))

\* JSON.stringify of an array of strings
JSON_stringify(list) == Text(<<"[">> \o Joined(list) \o <<"]">>)

\* the save effect: runs after every render in which tasks changed
SaveEffect(list) == JSON_stringify(list)

Digits == {"0", "1", "2", "3", "4", "5", "6", "7", "8", "9"}

\* the character at position i of s, "" past its end
At(s, i) == IF i \in 1..Len(s) THEN s[i] ELSE ""

StartsWith(s, i, word) ==
  /\ i + Len(word) - 1 <= Len(s)
  /\ SubSeq(s, i, i + Len(word) - 1) = word

\* the result of a parse: the value read and the position after it
Parsed(type, value, pos) ==
  [ok |-> TRUE, val |-> [t |-> type, v |-> value], pos |-> pos]

\* SyntaxError
Fail == [ok |-> FALSE, val |-> [t |-> "none", v |-> <<>>], pos |-> 0]

RECURSIVE Skip(_, _)
Skip(s, i) == IF At(s, i) \in Whitespace THEN Skip(s, i + 1) ELSE i

\* a string, i the position after its opening quote
RECURSIVE ParseString(_, _, _)
ParseString(s, i, acc) ==
  IF i > Len(s) THEN Fail
  ELSE IF s[i] = "\"" THEN Parsed("string", acc, i + 1)
  ELSE IF s[i] = "\\" THEN
    IF At(s, i + 1) \in {"\"", "\\", "/"}
    THEN ParseString(s, i + 2, Append(acc, s[i + 1]))
    ELSE Fail
  ELSE ParseString(s, i + 1, Append(acc, s[i]))

RECURSIVE ParseDigits(_, _)
ParseDigits(s, i) == IF At(s, i) \in Digits THEN ParseDigits(s, i + 1) ELSE i

\* a number without sign, fraction or exponent
ParseNumber(s, i) ==
  LET j == IF s[i] = "0" THEN i + 1 ELSE ParseDigits(s, i)
  IN Parsed("number", SubSeq(s, i, j - 1), j)

RECURSIVE ParseValue(_, _)
RECURSIVE ParseElements(_, _, _)
RECURSIVE ParseMembers(_, _, _)

ParseValue(s, from) ==
  LET i == Skip(s, from)
      c == At(s, i)
  IN
    IF c = "\"" THEN ParseString(s, i + 1, <<>>)
    ELSE IF c = "[" THEN
      IF At(s, Skip(s, i + 1)) = "]"
      THEN Parsed("array", <<>>, Skip(s, i + 1) + 1)
      ELSE ParseElements(s, i + 1, <<>>)
    ELSE IF c = "{" THEN
      IF At(s, Skip(s, i + 1)) = "}"
      THEN Parsed("object", <<>>, Skip(s, i + 1) + 1)
      ELSE ParseMembers(s, i + 1, <<>>)
    ELSE IF c \in Digits THEN ParseNumber(s, i)
    ELSE IF StartsWith(s, i, <<"n", "u", "l", "l">>)
      THEN Parsed("null", <<>>, i + 4)
    ELSE IF StartsWith(s, i, <<"t", "r", "u", "e">>)
      THEN Parsed("boolean", <<"true">>, i + 4)
    ELSE IF StartsWith(s, i, <<"f", "a", "l", "s", "e">>)
      THEN Parsed("boolean", <<"false">>, i + 5)
    ELSE Fail

\* the elements of an array after "[" or ",", acc the elements read
ParseElements(s, i, acc) ==
  LET r == ParseValue(s, i)
      j == Skip(s, r.pos)
  IN
    IF ~r.ok THEN Fail
    ELSE IF At(s, j) = "," THEN ParseElements(s, j + 1, Append(acc, r.val))
    ELSE IF At(s, j) = "]" THEN Parsed("array", Append(acc, r.val), j + 1)
    ELSE Fail

\* the members of an object after "{" or ",", acc the members read
ParseMembers(s, i, acc) ==
  LET k     == Skip(s, i)
      key   == IF At(s, k) = "\"" THEN ParseString(s, k + 1, <<>>) ELSE Fail
      colon == Skip(s, key.pos)
      r     == IF key.ok /\ At(s, colon) = ":"
               THEN ParseValue(s, colon + 1)
               ELSE Fail
      j     == Skip(s, r.pos)
      read  == Append(acc, <<key.val, r.val>>)
  IN
    IF ~r.ok THEN Fail
    ELSE IF At(s, j) = "," THEN ParseMembers(s, j + 1, read)
    ELSE IF At(s, j) = "}" THEN Parsed("object", read, j + 1)
    ELSE Fail

\* JSON.parse: one value and nothing but white space after it
JSON_parse(text) ==
  LET r == ParseValue(text, 1)
  IN IF r.ok /\ Skip(text, r.pos) = Len(text) + 1 THEN r ELSE Fail

Array_isArray(val) == val.t = "array"

\* the JavaScript value of a parsed array element: a string is its
\* characters, any other value a tuple no string is equal to
Element(val) == IF val.t = "string" THEN val.v ELSE <<"#", val.t>>

\* loadTasksFromStorage without the Array.isArray test
loadTasksUnchecked(value) ==
  IF value.kind = "throws" THEN <<>>
  ELSE IF value.kind = "absent" \/ value.text = <<>> THEN <<>>
  ELSE
    LET parsed == JSON_parse(value.text)
    IN IF ~parsed.ok THEN <<>>
       ELSE IF Array_isArray(parsed.val)
         THEN [k \in 1..Len(parsed.val.v) |-> Element(parsed.val.v[k])]
       ELSE <<Element(parsed.val)>>

\* loadTasksFromStorage in the browser, value what getItem does
loadTasksFromStorage(value) ==
  IF value.kind = "throws" THEN <<>>
  ELSE IF value.kind = "absent" \/ value.text = <<>> THEN <<>>
  ELSE
    LET parsed == JSON_parse(value.text)
    IN IF ~parsed.ok THEN <<>>
       ELSE IF Array_isArray(parsed.val)
         THEN [k \in 1..Len(parsed.val.v) |-> Element(parsed.val.v[k])]
       ELSE <<>>

(***************************************************************************)
(* The credit ledger of the session state machine                          *)
(***************************************************************************)
\* the balance on first use
InitialCredits == 3

\* what a skip costs, and a spin under the policy "spin costs 1 credit"
SkipCost == 1
SpinCost == 1

\* awardForCompletion: a credit at every multiple of Divisor completions,
\* one more at a streak of Threshold
Divisor == 2
Threshold == 10

\* awardForCompletion with the streak bonus at every streak from Threshold on
awardFromThreshold(newTotalCompletedCount, newStreakValue) ==
  (IF newTotalCompletedCount % Divisor = 0 THEN 1 ELSE 0)
    + (IF newStreakValue >= Threshold THEN 1 ELSE 0)

NoMessage == ""
ValidationError == "ValidationError"
InsufficientCredit == "InsufficientCredit"
InvalidPhase == "InvalidPhase"

\* the task names of the session
SessionNames == { <<"a">>, <<"b">>, <<"c">> }

\* a ledger that affords everything
canAffordAnything(balance, cost) == TRUE

\* canAfford(cost) on a ledger holding balance
canAfford(balance, cost) == balance >= cost

\* debit(cost): the balance after it; InsufficientCredit leaves the balance
debit(balance, cost) == IF balance < cost THEN balance ELSE balance - cost

\* credit(amount): the balance after it
credit(balance, amount) == balance + amount

awardForCompletion(newTotalCompletedCount, newStreakValue) ==
  (IF newTotalCompletedCount % Divisor = 0 THEN 1 ELSE 0)
    + (IF newStreakValue = Threshold THEN 1 ELSE 0)

\* choose(n) of the Random Outcome Selector
choose(n) == 0..(n - 1)

(***************************************************************************)
(* The tick emitter.  Positions are counted in tenths of a slot.           *)
(***************************************************************************)
\* the slot a position lies in
SlotOf(position) == position \div 10

\* the emitter when a spin begins: position 0, no cue fired.  coalesce is
\* the simplification the specification accepts: one cue per observation
\* in which the slot changed, however many boundaries were crossed.
EmitterStart(coalesce) ==
  [position |-> 0, lastSlot |-> 0, cues |-> <<>>, seen |-> <<>>,
   coalesce |-> coalesce]

\* the slots from..to in increasing order
RECURSIVE SlotsFromTo(_, _)
SlotsFromTo(from, to) ==
  IF from > to THEN <<>> ELSE <<from>> \o SlotsFromTo(from + 1, to)

\* an emitter that cues the slot it observes at every observation
CuedEveryFrame(coalesce, lastSlot, slot) == <<slot>>

\* the cues of an observation that finds the reel in slot, lastSlot the
\* last slot a cue fired for
Cued(coalesce, lastSlot, slot) ==
  IF slot <= lastSlot THEN <<>>
  ELSE IF coalesce THEN <<slot>>
  ELSE SlotsFromTo(lastSlot + 1, slot)

\* how far the position moves between two observations, in tenths
Deltas == {2, 3, 6, 7, 25}

(***************************************************************************)
(* Timers                                                                  *)
(***************************************************************************)
\* the id setTimeout returns: one no pending timer has and the ref does not hold
FreshId ==
  CHOOSE n \in 1..(Cardinality(timers) + 2) :
    /\ n # spinIntervalRef
    /\ \A t \in timers : t.id # n

TickTimer(id, delay, list) ==
  [id |-> id, kind |-> "tick", delay |-> delay, tasks |-> list, finalIndex |-> 0]

RevealTimer(id, delay, list, finalIndex) ==
  [id |-> id, kind |-> "reveal", delay |-> delay, tasks |-> list,
   finalIndex |-> finalIndex]

totalDuration == 3500

\* the slow-down with Math.max written for Math.min
NextSpeedMax(e, speed) ==
  IF e * 10 > totalDuration * 6
    THEN (IF speed + 30 > 400 THEN speed + 30 ELSE 400)
  ELSE IF e * 10 > totalDuration * 3
    THEN (IF speed + 10 > 200 THEN speed + 10 ELSE 200)
  ELSE speed

\* "Gradually slow down": the speed after a tick that brought elapsed to e
NextSpeed(e, speed) ==
  IF e * 10 > totalDuration * 6 THEN Min(speed + 30, 400)
  ELSE IF e * 10 > totalDuration * 3 THEN Min(speed + 10, 200)
  ELSE speed

\* the tick schedules another tick
Continues(e) == e < totalDuration

\* the indices Math.ceil would give in place of Math.floor
FinalIndexCeil(n) == 1..n

\* Math.floor(Math.random() * tasks.length): Math.random() is in [0, 1)
FinalIndexChoices(n) == 0..(n - 1)

\* the landing adjustment without the wrap into 0..n-1: the signed
\* distance from the centred index to finalIndex
AdjustmentSigned(offset, finalIndex, n) ==
  LET adjustment == finalIndex - (offset % n)
  IN IF adjustment = 0 THEN n ELSE adjustment

\* the landing adjustment without "always scroll at least one more"
AdjustmentNoFullTurn(offset, finalIndex, n) ==
  (finalIndex - (offset % n) + n) % n

\* the landing adjustment for the reel at offset, finalIndex and n tasks
Adjustment(offset, finalIndex, n) ==
  LET currentMod == ((offset % n) + n) % n
      adjustment == (finalIndex - currentMod + n) % n
  IN IF adjustment = 0 THEN n ELSE adjustment

(***************************************************************************)
(* Init: the state after the first render and its effects                  *)
(***************************************************************************)
\* the session of the spec's state machine on first use, under the policy
\* "spin costs 1 credit" (costly) or "free spin, paid skip"
SessionInit(costly) ==
  /\ TaskList = <<>>
  /\ CompletedHistory = <<>>
  /\ CreditBalance = InitialCredits
  /\ Streak = 0
  /\ phase = "Idle"
  /\ chosenIndex = 0
  /\ spinCostsCredit = costly
  /\ sessionMessage = NoMessage
  /\ awardCall = [total |-> 0, streak |-> 0, computed |-> FALSE, amount |-> 0]
  /\ emitter = EmitterStart(FALSE)

\* the first render of a component that found value in storage, and the
\* save effect that follows it
Mount(value) ==
  /\ loadedFrom = value
  /\ tasks = loadTasksFromStorage(value)
  /\ stored = SaveEffect(loadTasksFromStorage(value))
  /\ newTask = <<>>
  /\ isSpinning = FALSE
  /\ reelOffset = 0
  /\ transitionDuration = 60
  /\ winner = Null
  /\ error = ErrNone
  /\ spinIntervalRef = NoTimer
  /\ speedRef = 60
  /\ elapsedRef = 0
  /\ reelOffsetRef = 0
  /\ timers = {}
  /\ mounted = TRUE
  /\ setItemThrows = FALSE
  /\ crashed = FALSE
  /\ droppedUpdates = FALSE
  /\ spinTasks = <<>>
  /\ reveals = 0
  /\ cleared = FALSE
  /\ spinFrom = 0

\* a first visit: nothing is stored under the key
Init ==
  /\ Mount(Absent)
  /\ SessionInit(FALSE)

History == <<spinTasks, reveals, cleared, spinFrom>>
Refs == <<spinIntervalRef, speedRef, elapsedRef, reelOffsetRef>>

\* the session of the spec's state machine, which no handler of the
\* component reads or writes
Session == <<TaskList, CompletedHistory, CreditBalance, Streak, phase,
             chosenIndex, spinCostsCredit, sessionMessage>>

\* what the component's handlers and callbacks never write
Outside == <<loadedFrom, setItemThrows, Session, awardCall, emitter>>

\* the cleanup of the effect with no dependencies: clearTimeout of the
\* timer spinIntervalRef names
Cleanup ==
  IF spinIntervalRef # NoTimer
  THEN { t \in timers : t.id # spinIntervalRef }
  ELSE timers

\* the save effect after a render with a new tasks array: setItem stores
\* the text, or throws and React removes the component tree
Persist(list) ==
  IF setItemThrows THEN
    /\ crashed' = TRUE
    /\ mounted' = FALSE
    /\ timers' = Cleanup
    /\ UNCHANGED stored
  ELSE
    /\ stored' = SaveEffect(list)
    /\ UNCHANGED <<crashed, mounted, timers>>

(***************************************************************************)
(* Event handlers                                                          *)
(***************************************************************************)
\* a rejection that also clears the winner, as a successful add does
RejectedClearsWinner(message, text) ==
  /\ error' = message
  /\ newTask' = text
  /\ winner' = Null
  /\ UNCHANGED <<tasks, stored, crashed, mounted, timers>>

\* addTask() rejecting the text: setError(message); return.  The input
\* keeps the text the user typed.
Rejected(message, text) ==
  /\ error' = message
  /\ newTask' = text
  /\ UNCHANGED <<tasks, winner, stored, crashed, mounted, timers>>

\* addTask() run with text in the input: the onChange that put it there
\* (setNewTask(text); setError("")) has been rendered, so newTask is text
addTask(text) ==
  /\ mounted
  /\ LET trimmed == Trim(text) IN
       IF trimmed = <<>> THEN Rejected(ErrEmpty, text)
       ELSE IF Includes(tasks, trimmed) THEN Rejected(ErrExists, text)
       ELSE
         /\ tasks' = Append(tasks, trimmed)
         /\ newTask' = <<>>
         /\ error' = ErrNone
         /\ winner' = Null
         /\ Persist(tasks')
  /\ UNCHANGED <<isSpinning, reelOffset, transitionDuration, droppedUpdates>>
  /\ UNCHANGED Refs
  /\ UNCHANGED History
  /\ UNCHANGED Outside

\* removeTask without setWinner(null)
removeTaskKeepsWinner(index) ==
  /\ mounted
  /\ tasks' = FilterOut(tasks, index)
  /\ Persist(tasks')
  /\ UNCHANGED <<newTask, isSpinning, reelOffset, transitionDuration, winner,
                 error, droppedUpdates>>
  /\ UNCHANGED Refs
  /\ UNCHANGED History
  /\ UNCHANGED Outside

removeTask(index) ==
  /\ mounted
  /\ tasks' = FilterOut(tasks, index)
  /\ winner' = Null
  /\ Persist(tasks')
  /\ UNCHANGED <<newTask, isSpinning, reelOffset, transitionDuration, error,
                 droppedUpdates>>
  /\ UNCHANGED Refs
  /\ UNCHANGED History
  /\ UNCHANGED Outside

\* the indices removeTask is called with: those of a list of up to four
\* entries, and -1 and 4 and 5 outside them
RemoveIndices == (0 - 1)..5

\* the Remove button of row index of the Manage modal
RemoveClick ==
  \E index \in 0..(Len(tasks) - 1) : removeTask(index)

\* Clear All without setWinner(null)
ClearAllKeepsWinner ==
  /\ mounted
  /\ Len(tasks) > 0
  /\ tasks' = <<>>
  /\ reelOffset' = 0
  /\ reelOffsetRef' = 0
  /\ Persist(tasks')
  /\ cleared' = (cleared \/ timers # {})
  /\ spinFrom' = 0
  /\ UNCHANGED <<newTask, isSpinning, transitionDuration, error, winner,
                 droppedUpdates, spinIntervalRef, speedRef, elapsedRef,
                 spinTasks, reveals>>
  /\ UNCHANGED Outside

\* the Clear All button of the Manage modal, rendered when tasks.length > 0
ClearAll ==
  /\ mounted
  /\ Len(tasks) > 0
  /\ tasks' = <<>>
  /\ winner' = Null
  /\ reelOffset' = 0
  /\ reelOffsetRef' = 0
  /\ Persist(tasks')
  /\ cleared' = (cleared \/ timers # {})
  /\ spinFrom' = 0
  /\ UNCHANGED <<newTask, isSpinning, transitionDuration, error,
                 droppedUpdates, spinIntervalRef, speedRef, elapsedRef,
                 spinTasks, reveals>>
  /\ UNCHANGED Outside

\* spin() clearing the winner before its length check
spinTooFewClearsWinner ==
  /\ error' = ErrTooFew
  /\ winner' = Null
  /\ UNCHANGED <<isSpinning, timers>>
  /\ UNCHANGED Refs
  /\ UNCHANGED History

\* spin(), tasks.length < 2: the validation message and return
spinTooFew ==
  /\ error' = ErrTooFew
  /\ UNCHANGED <<isSpinning, winner, timers>>
  /\ UNCHANGED Refs
  /\ UNCHANGED History

\* a spin() that leaves speed and elapsed time where the spin before left
\* them
spinStartKeepsClock ==
  /\ reelOffsetRef <= MaxSpinStart
  /\ error' = ErrNone
  /\ winner' = Null
  /\ isSpinning' = TRUE
  /\ LET id == FreshId IN
       /\ timers' = timers \cup {TickTimer(id, speedRef, tasks)}
       /\ spinIntervalRef' = id
  /\ spinTasks' = tasks
  /\ reveals' = 0
  /\ cleared' = FALSE
  /\ spinFrom' = reelOffsetRef
  /\ UNCHANGED <<speedRef, elapsedRef, reelOffsetRef>>

\* a spin() that sets isSpinning and leaves the winner of the spin before
spinStartKeepsWinner ==
  /\ reelOffsetRef <= MaxSpinStart
  /\ error' = ErrNone
  /\ isSpinning' = TRUE
  /\ speedRef' = 60
  /\ elapsedRef' = 0
  /\ LET id == FreshId IN
       /\ timers' = timers \cup {TickTimer(id, speedRef', tasks)}
       /\ spinIntervalRef' = id
  /\ spinTasks' = tasks
  /\ reveals' = 0
  /\ cleared' = FALSE
  /\ spinFrom' = reelOffsetRef
  /\ UNCHANGED <<winner, reelOffsetRef>>

\* spin(), tasks.length >= 2: the state updates and the first tick timer
spinStart ==
  /\ reelOffsetRef <= MaxSpinStart
  /\ error' = ErrNone
  /\ winner' = Null
  /\ isSpinning' = TRUE
  /\ speedRef' = 60
  /\ elapsedRef' = 0
  /\ LET id == FreshId IN
       /\ timers' = timers \cup {TickTimer(id, speedRef', tasks)}
       /\ spinIntervalRef' = id
  /\ spinTasks' = tasks
  /\ reveals' = 0
  /\ cleared' = FALSE
  /\ spinFrom' = reelOffsetRef
  /\ UNCHANGED reelOffsetRef

spin ==
  /\ mounted
  /\ IF Len(tasks) < 2 THEN spinTooFew ELSE spinStart
  /\ UNCHANGED <<tasks, newTask, reelOffset, transitionDuration, mounted,
                 stored, crashed, droppedUpdates>>
  /\ UNCHANGED Outside

\* a Spin button disabled only for lack of tasks
SpinDisabledTooFewOnly == Len(tasks) < 2

\* the Spin button's disabled attribute
SpinDisabled == isSpinning \/ Len(tasks) < 2

\* a click on the Spin button
SpinClick ==
  /\ ~SpinDisabled
  /\ spin

\* spin() called with fewer than 2 tasks, the call the button keeps the
\* user from making
SpinCall ==
  /\ Len(tasks) < 2
  /\ spin

(***************************************************************************)
(* Timer callbacks                                                         *)
(***************************************************************************)
\* a state setter called by a callback: applied while mounted, dropped after
Set(new, old) == IF mounted THEN new ELSE old

Tick(t) ==
  /\ t \in timers
  /\ t.kind = "tick"
  /\ LET speed   == speedRef
         n       == Len(t.tasks)
         stepped == reelOffsetRef + 1
         elapsed == elapsedRef + speed
         slowed  == NextSpeed(elapsed, speed)
     IN
       /\ elapsedRef' = elapsed
       /\ speedRef' = slowed
       /\ droppedUpdates' = (droppedUpdates \/ ~mounted)
       /\ IF Continues(elapsed) THEN
            /\ reelOffsetRef' = stepped
            /\ reelOffset' = Set(stepped, reelOffset)
            /\ transitionDuration' = Set(speed, transitionDuration)
            /\ LET id == FreshId IN
                 /\ timers' = (timers \ {t}) \cup {TickTimer(id, slowed, t.tasks)}
                 /\ spinIntervalRef' = id
          ELSE
            \E finalIndex \in FinalIndexChoices(n) :
              LET adjustment == Adjustment(stepped, finalIndex, n)
                  id == FreshId
              IN
                /\ reelOffsetRef' = stepped + adjustment
                /\ reelOffset' = Set(stepped + adjustment, reelOffset)
                /\ transitionDuration' = Set(slowed, transitionDuration)
                /\ timers' = (timers \ {t}) \cup
                               {RevealTimer(id, slowed + 50, t.tasks, finalIndex)}
                /\ UNCHANGED spinIntervalRef
  /\ UNCHANGED <<tasks, newTask, isSpinning, winner, error, mounted, stored,
                 crashed>>
  /\ UNCHANGED History
  /\ UNCHANGED Outside

\* tasks[finalIndex] read from the current state and not from the closure
RevealedWinnerLive(t) ==
  IF t.finalIndex < Len(tasks) THEN tasks[t.finalIndex + 1] ELSE Undefined

\* a reveal callback that sets the winner and leaves isSpinning
RevealKeepsSpinning(t) ==
  /\ t \in timers
  /\ t.kind = "reveal"
  /\ timers' = timers \ {t}
  /\ winner' = IF mounted THEN t.tasks[t.finalIndex + 1] ELSE winner
  /\ reveals' = IF mounted THEN reveals + 1 ELSE reveals
  /\ droppedUpdates' = (droppedUpdates \/ ~mounted)
  /\ UNCHANGED <<tasks, newTask, isSpinning, reelOffset, transitionDuration,
                 error, mounted, stored, crashed, spinTasks, cleared, spinFrom>>
  /\ UNCHANGED Refs
  /\ UNCHANGED Outside

\* tasks[finalIndex] of the list and index the reveal callback closes over
RevealedWinner(t) == t.tasks[t.finalIndex + 1]

Reveal(t) ==
  /\ t \in timers
  /\ t.kind = "reveal"
  /\ timers' = timers \ {t}
  /\ winner' = Set(RevealedWinner(t), winner)
  /\ isSpinning' = Set(FALSE, isSpinning)
  /\ reveals' = IF mounted THEN reveals + 1 ELSE reveals
  /\ droppedUpdates' = (droppedUpdates \/ ~mounted)
  /\ UNCHANGED <<tasks, newTask, reelOffset, transitionDuration, error,
                 mounted, stored, crashed, spinTasks, cleared, spinFrom>>
  /\ UNCHANGED Refs
  /\ UNCHANGED Outside

TimerFires == \E t \in timers : Tick(t) \/ Reveal(t)

(***************************************************************************)
(* Unmount: the cleanup of the effect with no dependencies                 *)
(***************************************************************************)
Unmount ==
  /\ mounted
  /\ mounted' = FALSE
  /\ timers' = Cleanup
  /\ UNCHANGED <<tasks, newTask, isSpinning, reelOffset, transitionDuration,
                 winner, error, stored, crashed, droppedUpdates>>
  /\ UNCHANGED Refs
  /\ UNCHANGED History
  /\ UNCHANGED Outside

(***************************************************************************)
(* Specifications                                                          *)
(***************************************************************************)
\* the user types a text and presses Enter or Add
AddClick == \E text \in Inputs : addTask(text)

Next ==
  \/ AddClick
  \/ RemoveClick
  \/ ClearAll
  \/ SpinClick
  \/ TimerFires
  \/ Unmount

\* the component driven through its user interface
Spec == Init /\ [][Next]_vars

\* the same, the browser running every pending timer callback in the end
FairSpec == Spec /\ WF_vars(TimerFires)

\* the component with spin() also called with fewer than 2 tasks
NextDirect == Next \/ SpinCall

SpecDirect == Init /\ [][NextDirect]_vars

\* removeTask called with any index, in the range of the list or outside
RemoveCall ==
  \E index \in RemoveIndices : removeTask(index)

\* a session that finds StoredList in storage, the user removing, clearing
\* and spinning
InitStored ==
  /\ Mount(JSON_stringify(StoredList))
  /\ SessionInit(FALSE)

NextStored ==
  \/ RemoveClick
  \/ ClearAll
  \/ SpinClick
  \/ TimerFires
  \/ Unmount

SpecStored == InitStored /\ [][NextStored]_vars

\* the same session with removeTask called with any index
NextRemove == NextStored \/ RemoveCall

SpecRemove == InitStored /\ [][NextRemove]_vars

\* a session that finds LongList in storage, the user spinning
InitLong ==
  /\ Mount(JSON_stringify(LongList))
  /\ SessionInit(FALSE)

NextLong ==
  \/ SpinClick
  \/ TimerFires
  \/ Unmount

SpecLong == InitLong /\ [][NextLong]_vars

\* the browser's storage fills up or is withdrawn: from now on setItem
\* throws
StorageFails ==
  /\ mounted
  /\ ~setItemThrows
  /\ setItemThrows' = TRUE
  /\ UNCHANGED <<tasks, newTask, isSpinning, reelOffset, transitionDuration,
                 winner, error, timers, mounted, stored, loadedFrom, crashed,
                 droppedUpdates>>
  /\ UNCHANGED Refs
  /\ UNCHANGED History
  /\ UNCHANGED <<Session, awardCall, emitter>>

\* the component in a browser whose storage may start to fail
NextQuota == Next \/ StorageFails

SpecQuota == Init /\ [][NextQuota]_vars

\* what getItem gives a first render that cannot use it: nothing, an
\* exception, the empty string, a text that is not JSON or not an array
Unusable ==
  {Absent, Throws, Text(<<>>)} \cup { Text(t) : t \in NotJSON \cup NotArray }

\* what getItem gives a first render: an unusable value or a saved list
StoredValues == Unusable \cup { Text(t) : t \in SavedTexts }

\* a session that finds any of StoredValues in storage, the user adding,
\* removing and clearing
InitStorage ==
  /\ \E value \in StoredValues : Mount(value)
  /\ SessionInit(FALSE)

NextStorage ==
  \/ AddClick
  \/ RemoveClick
  \/ ClearAll
  \/ Unmount

SpecStorage == InitStorage /\ [][NextStorage]_vars

(***************************************************************************)
(* The session state machine and its credit ledger, as the specification   *)
(* describes them: the repository's sources hold no code for them.         *)
(***************************************************************************)
\* the component's state, which no request of the session touches
Component ==
  <<tasks, newTask, isSpinning, reelOffset, transitionDuration, winner, error,
    spinIntervalRef, speedRef, elapsedRef, reelOffsetRef, timers, mounted,
    stored, loadedFrom, setItemThrows, crashed, droppedUpdates, spinTasks,
    reveals, cleared, spinFrom>>

\* a rejection that also discards the spin state
SessionRejectedResets(message) ==
  /\ sessionMessage' = message
  /\ phase' = "Idle"
  /\ chosenIndex' = 0
  /\ UNCHANGED <<TaskList, CompletedHistory, CreditBalance, Streak,
                 spinCostsCredit, emitter>>

\* a request rejected: a message, no state change
SessionRejected(message) ==
  /\ sessionMessage' = message
  /\ UNCHANGED <<TaskList, CompletedHistory, CreditBalance, Streak, phase,
                 chosenIndex, spinCostsCredit, emitter>>

\* addTask(name)
SessionAddTask(name) ==
  /\ IF Includes(TaskList, name) THEN SessionRejected(ValidationError)
     ELSE
       /\ TaskList' = Append(TaskList, name)
       /\ sessionMessage' = NoMessage
       /\ UNCHANGED emitter
       /\ UNCHANGED <<CompletedHistory, CreditBalance, Streak, phase,
                      chosenIndex, spinCostsCredit>>
  /\ UNCHANGED <<Component, awardCall>>

\* spin(): the transition Idle -> Spinning
SessionSpin ==
  /\ IF phase # "Idle" THEN SessionRejected(InvalidPhase)
     ELSE IF Len(TaskList) < 2 THEN SessionRejected(ValidationError)
     ELSE IF spinCostsCredit /\ ~canAfford(CreditBalance, SpinCost)
       THEN SessionRejected(InsufficientCredit)
     ELSE
       /\ CreditBalance' = IF spinCostsCredit
                           THEN debit(CreditBalance, SpinCost)
                           ELSE CreditBalance
       /\ \E index \in choose(Len(TaskList)) : chosenIndex' = index
       /\ phase' = "Spinning"
       /\ sessionMessage' = NoMessage
       /\ emitter' = EmitterStart(emitter.coalesce)
       /\ UNCHANGED <<TaskList, CompletedHistory, Streak, spinCostsCredit>>
  /\ UNCHANGED <<Component, awardCall>>

\* the transition Spinning -> Revealed, when the step sequence reaches its
\* terminal position
SessionReveal ==
  /\ phase = "Spinning"
  /\ phase' = "Revealed"
  /\ UNCHANGED <<TaskList, CompletedHistory, CreditBalance, Streak,
                 chosenIndex, spinCostsCredit, sessionMessage, emitter>>
  /\ UNCHANGED <<Component, awardCall>>

\* complete() that puts the winner last in the completed history
SessionCompleteAppends ==
  /\ Len(CompletedHistory) < MaxCompleted
  /\ IF phase # "Revealed" THEN SessionRejected(InvalidPhase)
     ELSE
       /\ TaskList' = FilterOut(TaskList, chosenIndex)
       /\ CompletedHistory' = Append(CompletedHistory, TaskList[chosenIndex + 1])
       /\ Streak' = Streak + 1
       /\ CreditBalance' =
            credit(CreditBalance,
                   awardForCompletion(Len(CompletedHistory'), Streak'))
       /\ phase' = "Idle"
       /\ chosenIndex' = 0
       /\ sessionMessage' = NoMessage
       /\ UNCHANGED emitter
       /\ UNCHANGED spinCostsCredit
  /\ UNCHANGED <<Component, awardCall>>

\* complete(): the winner consumed
SessionComplete ==
  /\ Len(CompletedHistory) < MaxCompleted
  /\ IF phase # "Revealed" THEN SessionRejected(InvalidPhase)
     ELSE
       /\ TaskList' = FilterOut(TaskList, chosenIndex)
       /\ CompletedHistory' = <<TaskList[chosenIndex + 1]>> \o CompletedHistory
       /\ Streak' = Streak + 1
       /\ CreditBalance' =
            credit(CreditBalance,
                   awardForCompletion(Len(CompletedHistory'), Streak'))
       /\ phase' = "Idle"
       /\ chosenIndex' = 0
       /\ sessionMessage' = NoMessage
       /\ UNCHANGED emitter
       /\ UNCHANGED spinCostsCredit
  /\ UNCHANGED <<Component, awardCall>>

\* skip(): pay a credit, discard the winner, spin again.  The credit paid
\* is the whole price under either policy: a skip debits exactly 1.
SessionSkip ==
  /\ IF phase # "Revealed" THEN SessionRejected(InvalidPhase)
     ELSE IF ~canAfford(CreditBalance, SkipCost)
       THEN SessionRejected(InsufficientCredit)
     ELSE
       /\ CreditBalance' = debit(CreditBalance, SkipCost)
       /\ Streak' = 0
       /\ \E index \in choose(Len(TaskList)) : chosenIndex' = index
       /\ phase' = "Spinning"
       /\ sessionMessage' = NoMessage
       /\ emitter' = EmitterStart(emitter.coalesce)
       /\ UNCHANGED <<TaskList, CompletedHistory, spinCostsCredit>>
  /\ UNCHANGED <<Component, awardCall>>

\* a session on first use under either cost policy
InitSession ==
  /\ Mount(Absent)
  /\ \E costly \in BOOLEAN : SessionInit(costly)

NextSession ==
  \/ \E name \in SessionNames : SessionAddTask(name)
  \/ SessionSpin
  \/ SessionReveal
  \/ SessionComplete
  \/ SessionSkip

SpecSession == InitSession /\ [][NextSession]_vars

\* the emitter observing the position delta further on, while Spinning
Observe(delta) ==
  /\ phase = "Spinning"
  /\ Len(emitter.seen) < MaxObservations
  /\ LET position == emitter.position + delta
         slot == SlotOf(position)
     IN emitter' =
          [emitter EXCEPT
             !.position = position,
             !.seen = Append(emitter.seen, position),
             !.cues = emitter.cues \o Cued(emitter.coalesce, emitter.lastSlot, slot),
             !.lastSlot = IF slot > emitter.lastSlot THEN slot ELSE emitter.lastSlot]
  /\ UNCHANGED <<Component, Session, awardCall>>

\* a session of two tasks whose spins the tick emitter observes, cueing
\* every boundary or coalescing
InitEmitter ==
  /\ Mount(Absent)
  /\ TaskList = << <<"a">>, <<"b">> >>
  /\ CompletedHistory = <<>>
  /\ CreditBalance = InitialCredits
  /\ Streak = 0
  /\ phase = "Idle"
  /\ chosenIndex = 0
  /\ spinCostsCredit = FALSE
  /\ sessionMessage = NoMessage
  /\ awardCall = [total |-> 0, streak |-> 0, computed |-> FALSE, amount |-> 0]
  /\ \E coalesce \in BOOLEAN : emitter = EmitterStart(coalesce)

NextEmitter ==
  \/ SessionSpin
  \/ SessionReveal
  \/ SessionSkip
  \/ \E delta \in Deltas : Observe(delta)

SpecEmitter == InitEmitter /\ [][NextEmitter]_vars

\* the ledger computing the award of a completion
AwardComputed ==
  /\ ~awardCall.computed
  /\ awardCall' =
       [awardCall EXCEPT
          !.computed = TRUE,
          !.amount = awardForCompletion(awardCall.total, awardCall.streak)]
  /\ UNCHANGED <<Component, Session, emitter>>

\* awardForCompletion called with any completed count and streak
InitAward ==
  /\ Mount(Absent)
  /\ TaskList = <<>>
  /\ CompletedHistory = <<>>
  /\ CreditBalance = InitialCredits
  /\ Streak = 0
  /\ phase = "Idle"
  /\ chosenIndex = 0
  /\ spinCostsCredit = FALSE
  /\ sessionMessage = NoMessage
  /\ emitter = EmitterStart(FALSE)
  /\ \E total \in 1..MaxTotal, streak \in 0..MaxStreak :
       awardCall = [total |-> total, streak |-> streak,
                    computed |-> FALSE, amount |-> 0]

SpecAward == InitAward /\ [][AwardComputed]_vars

(***************************************************************************)
(* Properties                                                              *)
(***************************************************************************)
\* C1: a spin that starts ends, the component staying mounted, with
\* isSpinning false and the winner an entry of the task list spin() was
\* called with, whatever is added or removed while it runs.
C1_SpinEndsWithWinner ==
  (mounted /\ isSpinning) ~>
    (~mounted \/ (~isSpinning /\ winner # Null /\ Includes(spinTasks, winner)))

\* a spin revealed its winner after the task list changed under it
C1_Witness ==
  /\ mounted
  /\ reveals = 1
  /\ winner # Null
  /\ tasks # spinTasks

\* a step taken while a spin runs leaves the spin's list, clock and speed
RunningSpinKept ==
  (isSpinning /\ timers # {}) =>
    /\ spinTasks' = spinTasks
    /\ elapsedRef' >= elapsedRef
    /\ speedRef' >= speedRef
    /\ reveals' >= reveals

\* C2: while a spin is in progress no second spin starts: at most one timer
\* of a spin is pending in every reachable state, and no step taken while
\* isSpinning holds and a timer is pending replaces the list the spin closed
\* over, resets elapsed time or speed, or resets the count of reveals.
C2_OneSpinAtATime ==
  [](Cardinality(timers) <= 1) /\ [][RunningSpinKept]_vars

\* a spin is under way with two tasks in the list, where only isSpinning
\* keeps the Spin button disabled
C2_Witness ==
  /\ mounted
  /\ isSpinning
  /\ elapsedRef > 0
  /\ timers # {}
  /\ Len(tasks) >= 2

\* C3: once Clear All is pressed with the timers of a spin pending, no
\* callback of that spin stays pending and no winner is revealed until the
\* next spin starts.
C3_ClearAllCancelsSpin ==
  cleared => (timers = {} /\ winner = Null)

\* C4: after unmount no callback of a spin is pending and none has called a
\* state setter.
C4_UnmountCancelsAll ==
  ~mounted => (timers = {} /\ ~droppedUpdates)

\* C5: a spin reveals at most once, reveals only after the step that brought
\* elapsed time to totalDuration, sets the winner together with clearing
\* isSpinning, and has revealed exactly once when the component is mounted
\* and no timer of it is pending.
C5_RevealOnceAfterLastStep ==
  /\ reveals <= 1
  /\ (reveals = 1 => elapsedRef >= totalDuration)
  /\ (winner # Null => (~isSpinning /\ reveals = 1))
  /\ ((mounted /\ reveals = 1) => ~isSpinning)
  /\ ((mounted /\ spinTasks # <<>> /\ timers = {}) => reveals = 1)

\* the second spin of a session has revealed its winner
C5_Witness ==
  /\ mounted
  /\ reveals = 1
  /\ winner # Null
  /\ ~isSpinning
  /\ reelOffsetRef >= 2 * 35

\* a step that takes one entry out of the task list and keeps the winner in it
RemovesNonWinner ==
  /\ winner # Null
  /\ Len(tasks') = Len(tasks) - 1
  /\ Includes(tasks', winner)

\* C6 as claimed: removing a task that is not the winner leaves the revealed
\* winner unchanged.
C6_WinnerSurvivesRemoval ==
  [][RemovesNonWinner => winner' = winner]_vars

\* C6 amended: removing a task that is not the winner resets the revealed
\* winner to null; no removal changes it to another task.
C6_RemovalResetsWinner ==
  [][RemovesNonWinner => winner' = Null]_vars

\* a winner was revealed and a task was removed afterwards: the list is one
\* entry short of the list of the spin and the winner is null
C6_Witness ==
  /\ mounted
  /\ reveals = 1
  /\ ~isSpinning
  /\ winner = Null
  /\ Len(spinTasks) = 2
  /\ Len(tasks) = 1
  /\ Includes(spinTasks, tasks[1])

\* the index a running spin will land on: the one its reveal callback holds
IndexFixed == \E t \in timers : t.kind = "reveal"

\* C7: once a reel step of the running spin has happened, its winning index
\* is fixed.
C7_IndexFixedBeforeFirstStep ==
  (isSpinning /\ timers # {} /\ elapsedRef > 0) => IndexFixed

\* the reveal timers a step schedules land the reel on their finalIndex
LandingExact ==
  \A r \in timers' \ timers :
    r.kind = "reveal" =>
      LET n == Len(r.tasks)
          adjustment == reelOffsetRef' - (reelOffsetRef + 1)
      IN /\ r.tasks = spinTasks
         /\ n >= 2
         /\ r.finalIndex \in 0..(n - 1)
         /\ adjustment \in 1..n
         /\ reelOffsetRef' % n = r.finalIndex
         /\ reelOffset' = reelOffsetRef'

\* a reveal shows entry finalIndex of the list the spin started with, the
\* entry the reel stands on unless Clear All moved the reel meanwhile
RevealExact ==
  reveals' = reveals + 1 =>
    \E r \in timers \ timers' :
      /\ winner' = spinTasks[r.finalIndex + 1]
      /\ (~cleared => reelOffset % Len(spinTasks) = r.finalIndex)

\* C8: the landing step moves the reel 1..n slots past the last single step
\* and leaves reelOffsetRef mod n = finalIndex, n the length of the list the
\* spin started with; the reveal sets the winner to entry finalIndex of that
\* list.
C8_LandsOnFinalIndex ==
  [][LandingExact /\ RevealExact]_vars

\* a spin over three tasks that started from the offset an earlier spin left
\* has revealed its winner
C8_Witness ==
  /\ mounted
  /\ reveals = 1
  /\ winner # Null
  /\ Len(spinTasks) = 3
  /\ reelOffsetRef >= 2 * 35
  /\ winner = spinTasks[(reelOffsetRef % 3) + 1]

\* the step in which spin() sets its validation message
TooFewStep == error # ErrTooFew /\ error' = ErrTooFew

TooFewFrame ==
  /\ Len(tasks) < 2
  /\ UNCHANGED <<tasks, newTask, winner, isSpinning, reelOffset,
                 transitionDuration, spinIntervalRef, speedRef, elapsedRef,
                 reelOffsetRef, timers, stored>>

\* C9: the step in which spin() sets its validation message leaves the task
\* list, the winner, isSpinning, the reel position, the refs, the stored
\* list and the pending timers unchanged.
C9_TooFewChangesNothing ==
  [][TooFewStep => TooFewFrame]_vars

\* spin() was rejected with a revealed winner on display
C9_Witness ==
  /\ error = ErrTooFew
  /\ winner # Null
  /\ Len(tasks) < 2

NoDuplicates(list) ==
  \A i, j \in 1..Len(list) : i # j => list[i] # list[j]

NotPadded(s) ==
  /\ s # <<>>
  /\ s[1] \notin Whitespace
  /\ s[Len(s)] \notin Whitespace

\* list without its entry at position i
Without(list, i) == SubSeq(list, 1, i - 1) \o SubSeq(list, i + 1, Len(list))

WellFormedTasks ==
  /\ NoDuplicates(tasks)
  /\ \A i \in 1..Len(tasks) : NotPadded(tasks[i])

\* a step leaves the list, empties it, takes one entry out or appends one
OrderKept ==
  \/ tasks' = tasks
  \/ tasks' = <<>>
  \/ \E i \in 1..Len(tasks) : tasks' = Without(tasks, i)
  \/ /\ Len(tasks') = Len(tasks) + 1
     /\ SubSeq(tasks', 1, Len(tasks)) = tasks

\* C10: the task list never holds two equal entries nor an empty or
\* whitespace-padded one, and every step leaves it as it is, takes one entry
\* out of it, empties it or appends one entry at its end.
C10_UniqueOrderedTasks ==
  []WellFormedTasks /\ [][OrderKept]_vars

\* "A" was added, "a" removed and added again behind it, a spin running
C10_Witness ==
  /\ isSpinning
  /\ tasks = << <<"A">>, <<"a">> >>
  /\ spinTasks = << <<"a">>, <<"A">> >>

\* the text is empty after trimming or names a task of the list
InvalidName(text) == Trim(text) = <<>> \/ Includes(tasks, Trim(text))

\* a step that is addTask(text) sets a validation message and leaves the
\* task list, the stored list, the winner, the spin and the reel
RejectionChangesNothing(text) ==
  (InvalidName(text) /\ addTask(text)) =>
    /\ error' \in {ErrEmpty, ErrExists}
    /\ (Trim(text) = <<>>) = (error' = ErrEmpty)
    /\ UNCHANGED <<tasks, stored, winner, isSpinning, reelOffset,
                   reelOffsetRef, transitionDuration, timers, spinIntervalRef,
                   speedRef, elapsedRef, mounted>>

\* C11: addTask with a name that is empty or white space only, or whose
\* trimmed form is already in the list, sets an error message and changes
\* nothing else: task list, stored list, winner, isSpinning, reel position
\* and the timers of a running spin are as before.
C11_RejectedAddChangesNothing ==
  [][\A text \in Inputs : RejectionChangesNothing(text)]_vars

\* a duplicate was rejected after a spin revealed its winner
C11_Witness ==
  /\ error = ErrExists
  /\ newTask = <<" ", "a">>
  /\ winner # Null
  /\ ~isSpinning
  /\ Len(tasks) = 2
\* C12: after every mutation of the task list the value stored under the
\* key is the current list written by the save effect, and
\* loadTasksFromStorage applied to it returns the same sequence, for every
\* list of strings, the empty list included.
C12_SavedListLoadsBack ==
  /\ stored = SaveEffect(tasks)
  /\ loadTasksFromStorage(stored) = tasks

\* a list holding a quote character and a typed name was saved
C12_Witness ==
  /\ Len(tasks) = 3
  /\ tasks[1] = <<"\"">>
  /\ tasks[2] = <<"a", ",", "A">>
  /\ tasks[3] = <<"A">>
  /\ stored # loadedFrom

\* the first render of a component that found an unusable value
StartsEmptyAndIdle ==
  loadedFrom \in Unusable =>
    /\ tasks = <<>>
    /\ ~isSpinning
    /\ winner = Null
    /\ timers = {}
    /\ mounted

\* C13: loading never fails: for a stored value that is absent, not valid
\* JSON, valid JSON that is not an array, or whose read throws,
\* loadTasksFromStorage returns the empty list, and the widget starts with
\* no task, not spinning and with no winner.
C13_LoadNeverFails ==
  /\ StartsEmptyAndIdle
  /\ [](loadedFrom \in Unusable => loadTasksFromStorage(loadedFrom) = <<>>)

\* the component started from a stored JSON object
C13_Witness ==
  /\ loadedFrom = Text(<<"{", "}">>)
  /\ tasks = <<>>
  /\ winner = Null
  /\ ~isSpinning
  /\ stored = Text(<<"[", "]">>)
\* a step that changes the task list while setItem throws leaves the
\* component mounted and free of an unhandled error
FailedWriteKept ==
  (mounted /\ setItemThrows /\ tasks' # tasks) => (mounted' /\ ~crashed')

\* C14: a failing persistence write is not fatal: the mutation that
\* triggered it holds in memory and the widget goes on accepting addTask,
\* removeTask and spin, never reaching an unhandled-error state.
C14_FailedWriteNotFatal ==
  [](~crashed) /\ [][FailedWriteKept]_vars
\* a step in which a tick callback ran: only tick() adds to elapsedRef
TickStep == elapsedRef' > elapsedRef

\* a tick callback raises the reel position: by exactly 1 when it
\* schedules another tick, by at least 1 when it lands
TickRaises ==
  TickStep =>
    /\ reelOffsetRef' >= reelOffsetRef + 1
    /\ (elapsedRef' < totalDuration => reelOffsetRef' = reelOffsetRef + 1)
    /\ (mounted => (reelOffset' - reelOffset = reelOffsetRef' - reelOffsetRef))

\* the only step that lowers the reel position is Clear All, the user's
\* reset of the list
OnlyClearAllLowers ==
  /\ (reelOffsetRef' < reelOffsetRef =>
        (tasks # <<>> /\ tasks' = <<>> /\ reelOffsetRef' = 0))
  /\ (reelOffset' < reelOffset =>
        (tasks # <<>> /\ tasks' = <<>> /\ reelOffset' = 0))

\* a reel that has landed, its reveal pending, moves no further
LandedStays ==
  ((\E t \in timers : t.kind = "reveal") /\ tasks' = tasks) =>
    (reelOffsetRef' = reelOffsetRef /\ reelOffset' = reelOffset)

\* C15: the steps of a spin only raise the reel position: every tick
\* callback that schedules another raises reelOffset by exactly 1, the
\* landing callback raises it by at least 1, no callback lowers it, and
\* once landed it moves no further, so it never passes the terminal
\* position and comes back.  The one step that lowers it is Clear All.
C15_ReelOnlyAdvances ==
  [][TickRaises /\ OnlyClearAllLowers /\ LandedStays]_vars

\* a reel that started at slot 0 has landed, mounted, its reveal pending
C15_Witness ==
  /\ mounted
  /\ \E t \in timers : t.kind = "reveal"
  /\ spinFrom = 0
  /\ ~cleared
  /\ reelOffset = reelOffsetRef
  /\ reelOffset >= 35
\* the component shows the winner of a finished spin, before and after
\* the step
RevealedBothEnds == mounted /\ reveals = 1 /\ reveals' = 1

\* Clear All: the list emptied, the reel back at slot 0, the winner cleared
ClearAllStep ==
  /\ tasks # <<>>
  /\ tasks' = <<>>
  /\ reelOffset' = 0
  /\ reelOffsetRef' = 0
  /\ winner' = Null

\* between the reveal and the next spin a step leaves the reel position or
\* is Clear All
RevealedReelStill ==
  RevealedBothEnds =>
    \/ (reelOffset' = reelOffset /\ reelOffsetRef' = reelOffsetRef)
    \/ ClearAllStep

\* C16: from the reveal of a spin until the next spin starts the reel
\* position does not change: no timer callback of the finished spin is
\* left to fire, addTask and removeTask leave reelOffset, and the only step
\* that changes it is Clear All, which sets it to 0 and clears the winner
\* in the same step.
C16_ReelStillAfterReveal ==
  /\ []((mounted /\ reveals = 1) => timers = {})
  /\ [][RevealedReelStill]_vars

\* Clear All was pressed after the reveal of a spin that ran undisturbed
C16_Witness ==
  /\ mounted
  /\ reveals = 1
  /\ ~cleared
  /\ tasks = <<>>
  /\ reelOffset = 0
  /\ winner = Null
  /\ spinTasks # <<>>
\* the delay of the next reel step is the speed, within 60 ms and the cap;
\* the first step of a spin is scheduled 60 ms ahead
DelayInRange ==
  /\ speedRef \in 60..400
  /\ \A t \in timers :
       t.kind = "tick" =>
         /\ t.delay = speedRef
         /\ (elapsedRef = 0 => t.delay = 60)

\* a tick callback leaves the delay, or raises it by 10 ms past 30% of
\* the 3500 ms, by 30 ms past 60%
DelayGrows ==
  TickStep =>
    /\ speedRef' >= speedRef
    /\ speedRef' - speedRef =
         (IF elapsedRef' > 2100 THEN 30 ELSE IF elapsedRef' > 1050 THEN 10 ELSE 0)
    /\ \A t \in timers' \ timers : t.kind = "tick" => t.delay = speedRef'

\* C18: during a spin the delay between consecutive reel steps starts at
\* 60 ms, never decreases from one step to the next, grows by 10 ms per
\* step once elapsed time is past 30% of the 3500 ms target and by 30 ms
\* per step once it is past 60%, and never exceeds 400 ms.
C18_DelaySchedule ==
  []DelayInRange /\ [][DelayGrows]_vars

\* the last reel step before the landing is scheduled, 340 ms ahead
C18_Witness ==
  /\ mounted
  /\ elapsedRef > 2100
  /\ \E t \in timers : t.kind = "tick" /\ t.delay = 340
\* the next callback of tick timer t is the landing
LandingNext(t) == t.kind = "tick" /\ ~Continues(elapsedRef + speedRef)

\* the landing callback of t can choose index i
CanLandOn(t, i) ==
  ENABLED (Tick(t) /\ \E r \in timers' : r.kind = "reveal" /\ r.finalIndex = i)

\* C19: the index chosen for a spin over n >= 2 tasks is in 0..n-1, and
\* every index of that range is a possible outcome of every spin, whatever
\* task is centred when the choice is made and whatever the previous spin
\* chose.
C19_EveryIndexPossible ==
  /\ \A r \in timers :
       r.kind = "reveal" =>
         (Len(r.tasks) >= 2 /\ r.finalIndex \in 0..(Len(r.tasks) - 1))
  /\ \A t \in timers :
       LandingNext(t) => \A i \in 0..(Len(t.tasks) - 1) : CanLandOn(t, i)

\* a second spin over the stored list of four chose the index the first
\* spin landed on
C19_Witness ==
  /\ mounted
  /\ ~cleared
  /\ spinFrom >= 35
  /\ \E r \in timers :
       /\ r.kind = "reveal"
       /\ Len(r.tasks) = 4
       /\ r.finalIndex = spinFrom % 4
\* the indices of the list the centre of the reel has shown since the spin
\* started: slot k shows tasks[k % tasks.length], the centre is at slot
\* reelOffset
Centred ==
  { k % Len(spinTasks) : k \in spinFrom..reelOffsetRef }

\* the reel of the running spin has landed, its reveal pending, nothing
\* having reset the reel or changed the list under it
LandedUndisturbed ==
  /\ Len(spinTasks) >= 2
  /\ tasks = spinTasks
  /\ ~cleared
  /\ \E r \in timers : r.kind = "reveal"

\* C17: for every task list of at least 2 entries, the reel of a spin has
\* passed the centre position through every task of the list at least once
\* when it stops on the winner.
C17_EveryTaskPassed ==
  LandedUndisturbed => Centred = 0..(Len(spinTasks) - 1)
\* a credit-requiring request made with an empty ledger is rejected: the
\* balance stays 0, the phase, the streak and the chosen index stay
EmptyLedgerRejects ==
  (CreditBalance = 0 /\ (SessionSkip \/ (spinCostsCredit /\ SessionSpin))) =>
    /\ CreditBalance' = 0
    /\ UNCHANGED <<phase, Streak, chosenIndex, TaskList, CompletedHistory>>

\* C20: the skip-credit balance is never negative after any sequence of
\* spin, skip and complete requests, and a skip, or a spin under the policy
\* that charges for spins, requested with balance 0 fails and leaves the
\* balance at 0.
C20_BalanceNeverNegative ==
  [](CreditBalance >= 0) /\ [][EmptyLedgerRejects]_vars

\* a skip was refused for lack of credit while a winner waits
C20_Witness ==
  /\ CreditBalance = 0
  /\ phase = "Revealed"
  /\ sessionMessage = InsufficientCredit
\* the winner pending consumption
SessionWinner == TaskList[chosenIndex + 1]

\* a skip that is accepted resets the streak and debits exactly 1 credit
SkipEffect ==
  (phase = "Revealed" /\ CreditBalance >= 1 /\ SessionSkip) =>
    /\ Streak' = 0
    /\ CreditBalance' = CreditBalance - 1
    /\ UNCHANGED <<TaskList, CompletedHistory>>

\* a completion that is accepted debits nothing, adds 1 to the streak,
\* takes the winner out of the task list and puts it first in the history
CompleteEffect ==
  (phase = "Revealed" /\ SessionComplete) =>
    /\ CreditBalance' >= CreditBalance
    /\ Streak' = Streak + 1
    /\ Len(TaskList') = Len(TaskList) - 1
    /\ ~Includes(TaskList', SessionWinner)
    /\ \A i \in 1..Len(TaskList') :
         TaskList'[i] = IF i <= chosenIndex THEN TaskList[i] ELSE TaskList[i + 1]
    /\ Len(CompletedHistory') = Len(CompletedHistory) + 1
    /\ Head(CompletedHistory') = SessionWinner
    /\ Tail(CompletedHistory') = CompletedHistory

\* C21: Skip resets the streak to 0 and debits exactly 1 credit; Complete
\* never debits credit, always increments the streak by exactly 1, removes
\* the winner from the task list and puts it first in the completed
\* history.
C21_SkipAndCompleteEffects ==
  [][SkipEffect /\ CompleteEffect]_vars

\* a winner was skipped after two different tasks had been completed
C21_Witness ==
  /\ Len(CompletedHistory) = 2
  /\ CompletedHistory[1] # CompletedHistory[2]
  /\ Streak = 0
  /\ phase = "Spinning"
  /\ CreditBalance = InitialCredits
\* the award as the claim states it
ClaimedAward(total, streak) ==
  IF total % 2 = 0 /\ streak # 10 THEN 1
  ELSE IF total % 2 = 0 /\ streak = 10 THEN 2
  ELSE 0

\* C22: awardForCompletion(total, streak) returns 1 when total is a
\* multiple of the divisor and streak differs from the threshold, 2 when
\* total is a multiple and streak equals the threshold, and 0 in every
\* other case, for every total >= 1 and streak >= 0.
C22_AwardAsClaimed ==
  awardCall.computed =>
    awardCall.amount = ClaimedAward(awardCall.total, awardCall.streak)

\* C22, amended: awardForCompletion(total, streak) returns 2 when total is
\* a multiple of 2 and streak is 10, 1 when exactly one of the two holds
\* (a total that is no multiple of 2 with a streak of 10 earns the streak
\* bonus), and 0 when neither holds.
C22_AwardAdditive ==
  awardCall.computed =>
    LET multiple == awardCall.total % 2 = 0
        atStreak == awardCall.streak = 10
    IN /\ ((multiple /\ atStreak) => awardCall.amount = 2)
       /\ ((multiple /\ ~atStreak) => awardCall.amount = 1)
       /\ ((~multiple /\ atStreak) => awardCall.amount = 1)
       /\ ((~multiple /\ ~atStreak) => awardCall.amount = 0)

\* the award of the eleventh completion at a streak of 10 was computed
C22_Witness ==
  /\ awardCall.computed
  /\ awardCall.total = 11
  /\ awardCall.streak = 10
  /\ awardCall.amount = 1
\* a complete or skip request outside Revealed changes nothing but the
\* message
OutsideRevealedNoOp ==
  (phase # "Revealed" /\ (SessionComplete \/ SessionSkip)) =>
    /\ sessionMessage' = InvalidPhase
    /\ UNCHANGED <<TaskList, CompletedHistory, CreditBalance, Streak, phase,
                   chosenIndex>>

\* a spin request while a winner waits does not replace that winner
PendingWinnerKept ==
  (phase = "Revealed" /\ SessionSpin) =>
    UNCHANGED <<TaskList, CompletedHistory, CreditBalance, Streak, phase,
                chosenIndex>>

\* the one spin state names a task of the list while a spin runs or its
\* winner waits, and is cleared in Idle
OneSpinState ==
  /\ phase \in {"Idle", "Spinning", "Revealed"}
  /\ (phase = "Idle" => chosenIndex = 0)
  /\ (phase # "Idle" =>
        (Len(TaskList) >= 2 /\ chosenIndex \in 0..(Len(TaskList) - 1)))

\* C23: a complete or skip request made while the phase is Idle or
\* Spinning is rejected as a no-op: task list, completed history, credit
\* balance, streak and spin state are unchanged; and at most one winner is
\* pending consumption in every reachable state.
C23_InvalidPhaseRejected ==
  []OneSpinState /\ [][OutsideRevealedNoOp /\ PendingWinnerKept]_vars

\* a request was rejected while a spin ran, a completion behind it
C23_Witness ==
  /\ phase = "Spinning"
  /\ sessionMessage = InvalidPhase
  /\ Streak = 1
  /\ Len(CompletedHistory) = 1

(***************************************************************************)
(* C24: the cues of the tick emitter.                                      *)
(***************************************************************************)
\* the positions 0.3, 0.9, 1.2, 1.9, 2.1 observed after the start at 0.0
ExamplePositions == <<3, 9, 12, 19, 21>>

\* no observation found the reel more than one slot further than the one
\* before it
SingleCrossings ==
  \A i \in 1..Len(emitter.seen) :
    SlotOf(emitter.seen[i])
      - SlotOf(IF i = 1 THEN 0 ELSE emitter.seen[i - 1]) <= 1

\* one cue for every boundary crossed so far, in increasing slot order
CueForEveryBoundary ==
  emitter.cues = SlotsFromTo(1, SlotOf(emitter.position))

\* the cues are slots crossed, strictly increasing, the last one the slot
\* the reel is in
CuesIncreasing ==
  /\ \A i \in 1..Len(emitter.cues) :
       /\ emitter.cues[i] \in 1..SlotOf(emitter.position)
       /\ i > 1 => emitter.cues[i - 1] < emitter.cues[i]
  /\ SlotOf(emitter.position) >= 1 =>
       /\ emitter.cues # <<>>
       /\ emitter.cues[Len(emitter.cues)] = SlotOf(emitter.position)

\* the example positions give two cues
ExampleFiresTwice ==
  emitter.seen = ExamplePositions => Len(emitter.cues) = 2

\* outside Spinning no cue is added
NoCueOutsideSpinning ==
  phase # "Spinning" => emitter'.cues \in {emitter.cues, <<>>}

\* C24 as stated: in every state the cues fired are exactly the slot
\* boundaries the position has crossed, one cue each in increasing slot
\* order, and the example positions 0.0, 0.3, 0.9, 1.2, 1.9, 2.1 give
\* exactly two cues.
C24_OneCuePerBoundary ==
  /\ CueForEveryBoundary
  /\ ExampleFiresTwice

\* C24, amended: the cues are strictly increasing slots the position has
\* crossed, never one slot twice, the last cue being the slot the reel is
\* in; there is exactly one cue per boundary when the emitter does not
\* coalesce or no observation crossed more than one boundary; the example
\* positions give exactly two cues; and no cue is added once the phase has
\* left Spinning.
C24_CuesIncreasingOncePerSlot ==
  /\ [](/\ CuesIncreasing
        /\ (~emitter.coalesce \/ SingleCrossings) => CueForEveryBoundary
        /\ ExampleFiresTwice)
  /\ [][NoCueOutsideSpinning]_vars

\* the example positions observed by a coalescing emitter, two cues fired
C24_Witness ==
  /\ emitter.coalesce
  /\ emitter.seen = ExamplePositions
  /\ emitter.cues = <<1, 2>>
  /\ phase = "Spinning"

(***************************************************************************)
(* C25: the winner and the current task list.                              *)
(***************************************************************************)
\* C25: whenever winner is non-null it is an entry of the current task
\* list, whatever addTask, removeTask and Clear All did while the spin ran.
C25_WinnerInCurrentList ==
  winner # Null => Includes(tasks, winner)

(***************************************************************************)
(* C26: isSpinning and the winner.                                         *)
(***************************************************************************)
\* the step that sets isSpinning clears the winner
SpinClearsWinner ==
  (~isSpinning /\ isSpinning') => winner' = Null

\* the step that reveals sets the winner and clears isSpinning together
RevealSetsWinnerAndStops ==
  reveals' = reveals + 1 => (winner' # Null /\ ~isSpinning')

\* a step that changes the task list leaves no winner
ListChangeClearsWinner ==
  tasks' # tasks => winner' = Null

\* C26: in every reachable state isSpinning and a non-null winner exclude
\* each other: the step that sets isSpinning clears the winner, the reveal
\* sets the winner in the step that clears isSpinning, and a step that
\* changes the task list (addTask, removeTask, Clear All) leaves the winner
\* null.
C26_SpinningExcludesWinner ==
  /\ [](~(isSpinning /\ winner # Null))
  /\ [][SpinClearsWinner]_vars
  /\ [][RevealSetsWinnerAndStops]_vars
  /\ [][ListChangeClearsWinner]_vars

\* a spin running that was started after the reveal of the spin before it
C26_Witness ==
  /\ mounted
  /\ isSpinning
  /\ winner = Null
  /\ spinFrom >= 35
  /\ timers # {}

(***************************************************************************)
(* C27: the number of reel steps of a spin.                                *)
(***************************************************************************)
\* elapsed time and speed after k tick callbacks of a spin
RECURSIVE Schedule(_)
Schedule(k) ==
  IF k = 0 THEN [elapsed |-> 0, speed |-> 60]
  ELSE LET before  == Schedule(k - 1)
           elapsed == before.elapsed + before.speed
       IN [elapsed |-> elapsed, speed |-> NextSpeed(elapsed, before.speed)]

\* while a tick is pending the spin has made k < 34 single steps, and its
\* clock is the one of k steps
SpinClock ==
  (\E t \in timers : t.kind = "tick") =>
    \E k \in 0..33 :
      /\ elapsedRef = Schedule(k).elapsed
      /\ speedRef = Schedule(k).speed
      /\ elapsedRef < totalDuration
      /\ ~cleared => reelOffsetRef = spinFrom + k

\* while the reveal is pending the clock is the one of the landing
LandedClock ==
  (\E r \in timers : r.kind = "reveal") =>
    /\ elapsedRef = 3820
    /\ speedRef = 370
    /\ elapsedRef = Schedule(34).elapsed
    /\ speedRef = Schedule(34).speed

\* the landing tick makes the 34th single step and then the adjustment
LandingAfter34 ==
  (TickStep /\ elapsedRef' >= totalDuration) =>
    /\ elapsedRef' = 3820
    /\ speedRef' = 370
    /\ mounted => transitionDuration' = 370
    /\ ~cleared =>
         /\ reelOffsetRef + 1 = spinFrom + 34
         /\ \E r \in timers' :
              /\ r.kind = "reveal"
              /\ reelOffsetRef' =
                   spinFrom + 34
                     + Adjustment(spinFrom + 34, r.finalIndex, Len(r.tasks))

\* C27: every spin makes exactly 34 single-slot reel steps before the
\* landing adjustment, whatever the length of the task list and whatever
\* spins ran before it; at the landing the accumulated elapsed value is
\* 3820 ms and the step delay is 370 ms.
C27_ThirtyFourSteps ==
  /\ [](SpinClock /\ LandedClock)
  /\ [][LandingAfter34]_vars

\* the second spin of a session has landed, on a list of three tasks or more
C27_Witness ==
  /\ mounted
  /\ Len(spinTasks) >= 3
  /\ ~cleared
  /\ spinFrom >= 35
  /\ reelOffsetRef >= spinFrom + 35
  /\ elapsedRef = 3820
  /\ speedRef = 370
  /\ transitionDuration = 370
  /\ \E r \in timers : r.kind = "reveal"

(***************************************************************************)
(* C28: removeTask(index).                                                 *)
(***************************************************************************)
\* after holds what before held, without the entry at position index
RemovedAt(before, after, index) ==
  /\ Len(after) = Len(before) - 1
  /\ \A i \in 1..Len(after) :
       after[i] = before[IF i <= index THEN i ELSE i + 1]

\* what removeTask(index) does to the task list and the winner
RemoveEffect(index) ==
  /\ IF 0 <= index /\ index < Len(tasks)
       THEN RemovedAt(tasks, tasks', index)
       ELSE tasks' = tasks
  /\ winner' = Null

RemoveTaskAsClaimed ==
  \A index \in RemoveIndices : removeTask(index) => RemoveEffect(index)

\* C28: removeTask(index) with 0 <= index < length removes exactly the
\* entry at that position and keeps every other entry in its relative
\* order, the length one less; with an index outside that range the task
\* list is unchanged; in both cases the winner is null afterwards.
C28_RemoveTaskByIndex == [][RemoveTaskAsClaimed]_vars

\* a list one entry was removed from was spun, and after the reveal a
\* removeTask with an index outside the list cleared the winner and left
\* the list
C28_Witness ==
  /\ mounted
  /\ Len(tasks) = 3
  /\ tasks = spinTasks
  /\ reveals = 1
  /\ ~isSpinning
  /\ winner = Null

(***************************************************************************)
(* C29: the task list a stored value gives.                                *)
(***************************************************************************)
\* an entry that is a string: Element gives "#" and the type for the others
IsString(entry) ==
  ~(Len(entry) = 2 /\ entry[1] = "#" /\ entry[2] \notin {"#", "\"", "\\"})

\* C29: for every stored value the task list the widget starts with is an
\* ordered sequence of unique non-empty strings: a stored array holding
\* duplicates, empty strings or non-string elements is not loaded as it is.
C29_LoadedListWellFormed ==
  LET list == loadTasksFromStorage(loadedFrom)
  IN /\ NoDuplicates(list)
     /\ \A i \in 1..Len(list) : list[i] # <<>> /\ IsString(list[i])

====
